---- MODULE Spec2Model ----
(***************************************************************************)
(* A model of the BattelASM assembler (src/assembler.c) and of the         *)
(* register resolution of its older variant (src/compile.c).               *)
(*                                                                         *)
(* Text is modelled at character level: a string is a sequence of          *)
(* one-character strings, a source file a sequence of lines.  C integers   *)
(* keep their width where it matters: the long of parseNum is four 16-bit  *)
(* limbs, the int it is stored into two.                                   *)
(*                                                                         *)
(* The specifications share the definitions:                               *)
(*   Spec       compileFile on a source file, line by line;                *)
(*   SpecLive   the same, the process never stopping while it has a step   *)
(*              to take;                                                   *)
(*   SpecCapture the capture and replay of a #repeat block of any count;   *)
(*   SpecAlloc  the variable table under getRegister and #free;            *)
(*   SpecEnc    one instruction line through compileLine of both programs. *)
(***************************************************************************)
EXTENDS Integers, Sequences, FiniteSets, TLC

VARIABLES
    src,             \* the source file: a sequence of lines (without '\n')
    pc,              \* position of compileFile
    lines,           \* lines of the file not yet read by getline
    linenum,         \* compileFile: linenum
    instruction_num, \* compileFile: instruction_num
    program_size,    \* compileFile: program_size (size_t; x < 0 stands for 2^64 + x)
    offset,          \* compileFile: offset
    out,             \* words written to stdout, in order, as runs of equal words
    trailer,         \* TRUE once the size/offset trailer was written
    variables,       \* the global table variables[1..31]
    repeat_what,     \* compileFile: repeat_what
    repeat_times,    \* compileFile: repeat_times
    repeat_already,  \* compileFile: repeat_already
    repeat_arr,      \* compileFile: repeat_arr (the entries written so far)
    rc,              \* value returned by compileFile ("none" while it runs)
    err,             \* the error reported on stderr
    hist,            \* history: what the last handler did
    opts_vars,       \* Options.vars
    inp,             \* input of the operation under study (allocator, encoder, parser)
    res,             \* its result
    fuel             \* operations left in the allocator study

vars == <<src, pc, lines, linenum, instruction_num, program_size, offset, out,
          trailer, variables, repeat_what, repeat_times, repeat_already,
          repeat_arr, rc, err, hist, opts_vars, inp, res, fuel>>

fileVars == <<src, pc, lines, linenum, instruction_num, program_size, offset, out,
              trailer, repeat_what, repeat_times, repeat_already, repeat_arr,
              rc, err, hist>>

----------------------------------------------------------------------------
(* Bounds of the model *)

MaxLines == 2       \* body lines of the source files enumerated in full
MaxOut == 1030      \* words written before the model stops following a run
MaxFlood == 3       \* words followed of a loop that runs 2^31 times or more
MaxFuel == 2        \* allocator operations on the names under study
MaxSpin == 3        \* passes followed of a loop that does not end
MaxZeros == 33      \* zero digits inserted in the middle of a literal

----------------------------------------------------------------------------
(* Characters and C string functions *)

Min(a, b) == IF a < b THEN a ELSE b

\* F(e) with e evaluated once, before the call, as C evaluates an argument
Eager(F(_), e) == CHOOSE r \in {F(v) : v \in {e}} : TRUE

UpperChars == <<"A","B","C","D","E","F","G","H","I","J","K","L","M",
                "N","O","P","Q","R","S","T","U","V","W","X","Y","Z">>
LowerChars == <<"a","b","c","d","e","f","g","h","i","j","k","l","m",
                "n","o","p","q","r","s","t","u","v","w","x","y","z">>
DigitChars == <<"0","1","2","3","4","5","6","7","8","9">>

tolower(c) ==
    IF \E i \in 1..26 : UpperChars[i] = c
    THEN LowerChars[CHOOSE i \in 1..26 : UpperChars[i] = c]
    ELSE c

isdigit(c) == \E i \in 1..10 : DigitChars[i] = c

DigitVal(c) == (CHOOSE i \in 1..10 : DigitChars[i] = c) - 1

\* form feed and vertical tab, which have no escape in a TLA+ string
FF == "<ff>"
VT == "<vt>"

isspace(c) == c \in {" ", "\t", "\n", "\r", FF, VT}

\* the three comparisons return 0 on equality and 1 otherwise (the sign of a
\* difference is never used by the program)
strcmp(a, b) == IF a = b THEN 0 ELSE 1

strcasecmp(a, b) ==
    IF /\ Len(a) = Len(b)
       /\ \A i \in 1..Len(a) : tolower(a[i]) = tolower(b[i])
    THEN 0 ELSE 1

strncasecmp(a, b, n) ==
    LET la == Min(Len(a), n)
        lb == Min(Len(b), n)
    IN IF /\ la = lb
          /\ \A i \in 1..la : tolower(a[i]) = tolower(b[i])
       THEN 0 ELSE 1

\* index of the first character at or after i that is not white space
SkipSpace(s, i) ==
    LET RECURSIVE go(_)
        go(j) == IF j <= Len(s) /\ isspace(s[j]) THEN go(j + 1) ELSE j
    IN go(i)

\* index of the first character at or after i that is white space
SkipWord(s, i) ==
    LET RECURSIVE go(_)
        go(j) == IF j <= Len(s) /\ ~isspace(s[j]) THEN go(j + 1) ELSE j
    IN go(i)

\* index of the first character at or after i that is not a digit
SkipDigits(s, i) ==
    LET RECURSIVE go(_)
        go(j) == IF j <= Len(s) /\ isdigit(s[j]) THEN go(j + 1) ELSE j
    IN go(i)

\* value of the decimal digits s[i..j-1]
DecValue(s, i, j) ==
    LET RECURSIVE go(_, _)
        go(k, acc) == IF k >= j THEN acc ELSE go(k + 1, acc * 10 + DigitVal(s[k]))
    IN go(i, 0)

\* scanf's %d at position i: white space, an optional sign, digits
ScanInt(s, i) ==
    Eager(LAMBDA a :
      Eager(LAMBDA signed :
        Eager(LAMBDA b :
          Eager(LAMBDA e :
            IF e = b
            THEN [ok |-> FALSE, val |-> 0, next |-> i]
            ELSE Eager(LAMBDA mag :
                         [ok |-> TRUE,
                          val |-> IF signed /\ s[a] = "-" THEN 0 - mag ELSE mag,
                          next |-> e],
                       DecValue(s, b, e)),
            SkipDigits(s, b)),
          IF signed THEN a + 1 ELSE a),
        a <= Len(s) /\ s[a] \in {"-", "+"}),
      SkipSpace(s, i))

\* scanf's %s at position i: white space, then a word
ScanWord(s, i) ==
    Eager(LAMBDA a :
      Eager(LAMBDA e :
        IF e = a
        THEN [ok |-> FALSE, val |-> <<>>, next |-> i]
        ELSE [ok |-> TRUE, val |-> SubSeq(s, a, e - 1), next |-> e],
        SkipWord(s, a)),
      SkipSpace(s, i))

----------------------------------------------------------------------------
(* C integers.  A long is its magnitude in four 16-bit limbs (least          *)
(* significant first) and a sign; an int is its 32-bit pattern in two limbs.  *)

Limb == 65536

ZeroLong == <<0, 0, 0, 0>>

\* m * base + d on the magnitude; carry is what does not fit in 64 bits
MulAdd(m, base, d) ==
    LET r1 == m[1] * base + d
        r2 == m[2] * base + (r1 \div Limb)
        r3 == m[3] * base + (r2 \div Limb)
        r4 == m[4] * base + (r3 \div Limb)
    IN [mag |-> <<r1 % Limb, r2 % Limb, r3 % Limb, r4 % Limb>>,
        carry |-> r4 \div Limb]

\* the conversion long -> int of "*ret = val": the low 32 bits, two's complement
LongToInt(m, neg) ==
    IF ~neg \/ (m[1] = 0 /\ m[2] = 0)
    THEN [hi |-> m[2], lo |-> m[1]]
    ELSE IF m[1] = 0
         THEN [hi |-> Limb - m[2], lo |-> 0]
         ELSE [hi |-> (Limb - 1) - m[2], lo |-> Limb - m[1]]

\* the int with a value x small enough for the model's own arithmetic
SmallInt(x) ==
    IF x >= 0
    THEN [hi |-> (x \div Limb) % Limb, lo |-> x % Limb]
    ELSE [hi |-> (Limb - 1) - ((((0 - x) - 1) \div Limb) % Limb),
          lo |-> (Limb - 1) - (((0 - x) - 1) % Limb)]

IntIsNegative(v) == v.hi >= 32768

\* "val < 0 || val >= (1 << bits)" for bits <= 16
OutOfRange(v, bits) == v.hi # 0 \/ v.lo >= 2 ^ bits

HexChars == <<"0","1","2","3","4","5","6","7","8","9","a","b","c","d","e","f">>

ishex(c) == \E i \in 1..16 : HexChars[i] = tolower(c)

HexVal(c) == (CHOOSE i \in 1..16 : HexChars[i] = tolower(c)) - 1

IsDigitOf(c, base) == IF base = 16 THEN ishex(c) ELSE isdigit(c)

\* strtol(s + (i - 1), &endptr, base): white space, an optional sign, for base
\* 16 an optional 0x, digits.  end is the index endptr points at; erange is
\* errno == ERANGE (the value does not fit in a long).
strtol(s, i, base) ==
    LET a == SkipSpace(s, i)
        signed == a <= Len(s) /\ s[a] \in {"-", "+"}
        neg == signed /\ s[a] = "-"
        b == IF signed THEN a + 1 ELSE a
        prefixed == /\ base = 16
                    /\ b + 2 <= Len(s)
                    /\ s[b] = "0" /\ tolower(s[b + 1]) = "x"
                    /\ ishex(s[b + 2])
        c == IF prefixed THEN b + 2 ELSE b
        RECURSIVE go(_, _, _)
        go(k, m, over) ==
            IF k <= Len(s) /\ IsDigitOf(s[k], base)
            THEN Eager(LAMBDA r : go(k + 1, r.mag,
                                     over \/ r.carry # 0 \/ r.mag[4] >= 32768),
                       MulAdd(m, base, HexVal(s[k])))
            ELSE [mag |-> m, end |-> k, erange |-> over]
    IN Eager(LAMBDA r :
                 IF r.end = c
                 THEN [mag |-> ZeroLong, neg |-> FALSE, end |-> i, erange |-> FALSE]
                 ELSE [mag |-> r.mag, neg |-> neg, end |-> r.end, erange |-> r.erange],
             go(c, ZeroLong, FALSE))

\* the body of parseNum for a literal of the given form ("bin", "hex" or
\* "dec") whose binary or hexadecimal digits begin at index start: ok is the
\* return value, val is *ret
ParseLiteral(s, form, start) ==
    IF form = "bin"
    THEN LET RECURSIVE go(_, _)
             go(i, m) ==
                 IF i > Len(s) THEN [ok |-> TRUE, mag |-> m]
                 ELSE IF s[i] \in {"0", "1"}
                      THEN Eager(LAMBDA m2 : go(i + 1, m2),
                                 MulAdd(m, 2, DigitVal(s[i])).mag)
                      ELSE IF s[i] # "."
                           THEN [ok |-> FALSE, mag |-> m]
                           ELSE go(i + 1, m)
         IN Eager(LAMBDA r :
                      IF r.ok
                      THEN [ok |-> TRUE, val |-> LongToInt(r.mag, FALSE),
                            err |-> "none"]
                      ELSE [ok |-> FALSE, val |-> SmallInt(0),
                            err |-> "Invalid binary number"],
                  go(start, ZeroLong))
    ELSE IF form = "hex"
    THEN Eager(LAMBDA r :
                   IF r.end <= Len(s) \/ r.erange
                   THEN [ok |-> FALSE, val |-> SmallInt(0),
                         err |-> "Invalid hexadecimal number"]
                   ELSE [ok |-> TRUE, val |-> LongToInt(r.mag, r.neg), err |-> "none"],
               strtol(s, start, 16))
    ELSE Eager(LAMBDA r :
                   IF r.end <= Len(s) \/ r.erange
                   THEN [ok |-> FALSE, val |-> SmallInt(0),
                         err |-> "Invalid decimal number"]
                   ELSE [ok |-> TRUE, val |-> LongToInt(r.mag, r.neg), err |-> "none"],
               strtol(s, 1, 10))

\* parseNum of assembler.c: 0b and 0x introduce binary and hexadecimal
parseNum(s) ==
    ParseLiteral(s,
                 IF Len(s) >= 2 /\ s[1] = "0" /\ s[2] = "b" THEN "bin"
                 ELSE IF Len(s) >= 2 /\ s[1] = "0" /\ s[2] = "x" THEN "hex"
                 ELSE "dec",
                 3)

\* parseNum of compile.c: b and x introduce binary and hexadecimal
parseNum_compile(s) ==
    ParseLiteral(s,
                 IF Len(s) >= 1 /\ s[1] = "b" THEN "bin"
                 ELSE IF Len(s) >= 1 /\ s[1] = "x" THEN "hex"
                 ELSE "dec",
                 2)

\* index of the first ':' at or after i, Len(s) + 1 when there is none
SkipName(s, i) ==
    LET RECURSIVE go(_)
        go(j) == IF j <= Len(s) /\ s[j] # ":" THEN go(j + 1) ELSE j
    IN go(i)

\* parseConst: the token is #name[:change[:multiplier]].  The sizes are small
\* in the model, so the size_t arithmetic and its conversion to int are the
\* model's own arithmetic followed by SmallInt.  A token with no name after
\* '#' leaves const_name indeterminate; no input of the model has that form.
parseConst(s, psize, inum) ==
    IF Len(s) = 0 \/ s[1] # "#"
    THEN [ok |-> FALSE, val |-> SmallInt(0), err |-> "keep"]
    ELSE LET e == SkipName(s, 2)
             const_name == SubSeq(s, 2, e - 1)
             ch == IF e <= Len(s) THEN ScanInt(s, e + 1)
                   ELSE [ok |-> FALSE, val |-> 0, next |-> e]
             change == IF ch.ok THEN ch.val ELSE 0
             mu == IF ch.ok /\ ch.next <= Len(s) /\ s[ch.next] = ":"
                   THEN ScanInt(s, ch.next + 1)
                   ELSE [ok |-> FALSE, val |-> 1, next |-> e]
             multiplier == IF mu.ok THEN mu.val ELSE 1
         IN IF strcasecmp(const_name, <<"s","i","z","e">>) = 0
            THEN [ok |-> TRUE, val |-> SmallInt(psize * multiplier + change),
                  err |-> "none"]
            ELSE IF strcasecmp(const_name, <<"b","e","f","o","r","e">>) = 0
            THEN [ok |-> TRUE, val |-> SmallInt(inum * multiplier + change),
                  err |-> "none"]
            ELSE IF strcasecmp(const_name, <<"a","f","t","e","r">>) = 0
            THEN [ok |-> TRUE,
                  val |-> SmallInt((psize - inum - 1) * multiplier + change),
                  err |-> "none"]
            ELSE [ok |-> FALSE, val |-> SmallInt(0),
                  err |-> "Unknown compile-time constant"]

----------------------------------------------------------------------------
(* Opcodes and the operation table *)

SP == 30
PC == 31

OP_LDI == 0
OP_MV == 32
OP_ADD == 33
OP_SUB == 34
OP_NOT == 35
OP_AND == 36
OP_OR == 37
OP_XOR == 38
OP_SHL == 39
OP_SHR == 40
OP_JMP == 41
OP_JZ == 42
OP_JNZ == 43
OP_JN == 44
OP_JP == 45
OP_LD == 46
OP_ST == 47
OP_PUSH == 48
OP_POP == 49
OP_ADDI == 50
OP_SUBI == 51
OP_SHLI == 52
OP_SHRI == 53
OP_FLAG == 63

\* the if/else-if chain of getOperation, in its order
OperationTable ==
    << [name |-> <<"L","D","I">>, op |-> OP_LDI],
       [name |-> <<"M","V">>, op |-> OP_MV],
       [name |-> <<"A","D","D">>, op |-> OP_ADD],
       [name |-> <<"S","U","B">>, op |-> OP_SUB],
       [name |-> <<"N","O","T">>, op |-> OP_NOT],
       [name |-> <<"A","N","D">>, op |-> OP_AND],
       [name |-> <<"O","R">>, op |-> OP_OR],
       [name |-> <<"X","O","R">>, op |-> OP_XOR],
       [name |-> <<"S","H","L">>, op |-> OP_SHL],
       [name |-> <<"S","H","R">>, op |-> OP_SHR],
       [name |-> <<"J","M","P">>, op |-> OP_JMP],
       [name |-> <<"J","Z">>, op |-> OP_JZ],
       [name |-> <<"J","N","Z">>, op |-> OP_JNZ],
       [name |-> <<"J","N">>, op |-> OP_JN],
       [name |-> <<"J","P">>, op |-> OP_JP],
       [name |-> <<"L","D">>, op |-> OP_LD],
       [name |-> <<"S","T">>, op |-> OP_ST],
       [name |-> <<"P","U","S","H">>, op |-> OP_PUSH],
       [name |-> <<"P","O","P">>, op |-> OP_POP],
       [name |-> <<"A","D","D","I">>, op |-> OP_ADDI],
       [name |-> <<"S","U","B","I">>, op |-> OP_SUBI],
       [name |-> <<"S","H","L","I">>, op |-> OP_SHLI],
       [name |-> <<"S","H","R","I">>, op |-> OP_SHRI],
       [name |-> <<"F","L","A","G">>, op |-> OP_FLAG] >>

getOperation(symbol) ==
    LET hits == {i \in 1..Len(OperationTable) :
                    strcasecmp(symbol, OperationTable[i].name) = 0}
    IN IF hits = {}
       THEN [ok |-> FALSE, op |-> 0, err |-> "Unknown instruction"]
       ELSE [ok |-> TRUE,
             op |-> OperationTable[CHOOSE i \in hits : \A j \in hits : i <= j].op,
             err |-> "none"]

\* compile.c: OP_JN and OP_JNZ are declared in the other order, and its
\* getOperation has no JNZ branch
OP_JN_compile == 43
OP_JNZ_compile == 44

getOperation_compile(symbol) ==
    IF strcasecmp(symbol, <<"J","N","Z">>) = 0
    THEN [ok |-> FALSE, op |-> 0, err |-> "Unknown instruction"]
    ELSE IF strcasecmp(symbol, <<"J","N">>) = 0
    THEN [ok |-> TRUE, op |-> OP_JN_compile, err |-> "none"]
    ELSE getOperation(symbol)

----------------------------------------------------------------------------
(* Register and variable resolution *)

\* the table after init_variables: every slot empty but sp and pc
init_variables == [i \in 1..31 |->
                     IF i = SP THEN <<"s","p">>
                     ELSE IF i = PC THEN <<"p","c">>
                     ELSE <<>>]

\* the register number of a token of the form r<d> or r<d><d>; -1 when the
\* code jumps to special_name
RegisterNumber(symbol) ==
    LET n == Len(symbol)
    IN IF n >= 1 /\ symbol[1] \in {"r", "R"} /\ n >= 2 /\ n <= 3
       THEN IF ~isdigit(symbol[2]) THEN 0 - 1
            ELSE IF n = 3
                 THEN IF ~isdigit(symbol[3]) THEN 0 - 1
                      ELSE DigitVal(symbol[2]) * 10 + DigitVal(symbol[3])
                 ELSE DigitVal(symbol[2])
       ELSE 0 - 1

\* the last slot of variables[1..31] whose name is empty, -1 when none is
FirstEmptyHighest(vs) ==
    LET empties == {i \in 1..31 : vs[i] = <<>>}
    IN IF empties = {} THEN 0 - 1
       ELSE CHOOSE i \in empties : \A j \in empties : i >= j

\* the value of "empty" after the loop of getRegister when no name matched:
\* the first slot of variables[1..31] whose name is empty, -1 when none is
FirstEmpty(vs) ==
    LET empties == {i \in 1..31 : vs[i] = <<>>}
    IN IF empties = {} THEN 0 - 1
       ELSE CHOOSE i \in empties : \A j \in empties : i <= j

\* getRegister of assembler.c: ok is its return value, reg is *ret, vars the
\* table variables after the call
getRegister(symbol, vs, use_vars) ==
    LET n == Len(symbol)
        num == RegisterNumber(symbol)
        matches == {i \in 1..31 : strcasecmp(vs[i], symbol) = 0}
        empty == FirstEmpty(vs)
    IN IF n = 0 THEN [ok |-> FALSE, reg |-> 0, vars |-> vs, err |-> "keep"]
       ELSE IF num >= 0
       THEN IF num < 32
            THEN [ok |-> TRUE, reg |-> num, vars |-> vs, err |-> "none"]
            ELSE [ok |-> FALSE, reg |-> 0, vars |-> vs, err |-> "Unknown register"]
       ELSE IF use_vars /\ (isdigit(symbol[1]) \/ symbol[1] = "#")
       THEN [ok |-> FALSE, reg |-> 0, vars |-> vs, err |-> "Invalid variable name"]
       ELSE IF matches # {}
       THEN [ok |-> TRUE, reg |-> CHOOSE i \in matches : \A j \in matches : i <= j,
             vars |-> vs, err |-> "none"]
       ELSE IF empty = 0 - 1
       THEN [ok |-> FALSE, reg |-> 0, vars |-> vs, err |-> "Too many variables"]
       ELSE IF use_vars
       THEN [ok |-> TRUE, reg |-> empty, vars |-> [vs EXCEPT ![empty] = symbol],
             err |-> "none"]
       ELSE [ok |-> FALSE, reg |-> 0, vars |-> vs, err |-> "Invalid register"]

\* getRegister of compile.c: registers, sp and pc only
getRegister_compile(symbol, vs, use_vars) ==
    LET n == Len(symbol)
        num == RegisterNumber(symbol)
    IN IF n = 0 THEN [ok |-> FALSE, reg |-> 0, vars |-> vs, err |-> "keep"]
       ELSE IF num >= 0
       THEN IF num <= 32
            THEN [ok |-> TRUE, reg |-> num, vars |-> vs, err |-> "none"]
            ELSE [ok |-> FALSE, reg |-> 0, vars |-> vs, err |-> "Unknown register"]
       ELSE IF strcasecmp(symbol, <<"s","p">>) = 0
       THEN [ok |-> TRUE, reg |-> SP, vars |-> vs, err |-> "none"]
       ELSE IF strcasecmp(symbol, <<"p","c">>) = 0
       THEN [ok |-> TRUE, reg |-> PC, vars |-> vs, err |-> "none"]
       ELSE [ok |-> FALSE, reg |-> 0, vars |-> vs, err |-> "Unknown register"]

\* the #free directive's search: variables[1..29] compared with strcmp
FreeVariable(vs, param) ==
    LET hits == {i \in 1..29 : strcmp(vs[i], param) = 0}
        i == IF hits = {} THEN 30
             ELSE CHOOSE h \in hits : \A j \in hits : h <= j
    IN IF i = 30
       THEN [ok |-> FALSE, vars |-> vs]
       ELSE [ok |-> TRUE, vars |-> [vs EXCEPT ![i] = <<>>]]

----------------------------------------------------------------------------
(* The line encoder *)

\* a | b on 16-bit words
BitOr(a, b) ==
    LET RECURSIVE go(_, _, _)
        go(x, y, n) ==
            IF n = 0 THEN 0
            ELSE (IF x % 2 = 1 \/ y % 2 = 1 THEN 1 ELSE 0)
                 + 2 * go(x \div 2, y \div 2, n - 1)
    IN go(a, b, 16)

\* bits hi..lo of a word
Bits(w, hi, lo) == (w \div (2 ^ lo)) % (2 ^ (hi - lo + 1))

\* the delimiters without the blank
delimsNoBlank == {",", "\t", "\r", "\n"}

delims == {" ", ",", "\t", "\r", "\n"}

\* the tokens strtok returns for a line, in order
Tokenize(line) ==
    LET RECURSIVE go(_, _, _)
        go(i, cur, acc) ==
            IF i > Len(line)
            THEN IF cur = <<>> THEN acc ELSE Append(acc, cur)
            ELSE IF line[i] \in delims
                 THEN Eager(LAMBDA a : go(i + 1, <<>>, a),
                            IF cur = <<>> THEN acc ELSE Append(acc, cur))
                 ELSE Eager(LAMBDA c : go(i + 1, c, acc), Append(cur, line[i]))
    IN go(1, <<>>, <<>>)

\* "!parseNum(token, &val) && !parseConst(token, ...)" of assembler.c
ParseValue(token, psize, inum) ==
    Eager(LAMBDA n :
              IF n.ok THEN n
              ELSE Eager(LAMBDA c :
                             IF c.ok THEN c
                             ELSE [ok |-> FALSE, val |-> SmallInt(0),
                                   err |-> IF c.err = "keep" THEN n.err ELSE c.err],
                         parseConst(token, psize, inum)),
          parseNum(token))

OneOperandOps == {OP_NOT, OP_JMP, OP_PUSH, OP_POP}
ImmediateOps == {OP_ADDI, OP_SUBI, OP_SHLI, OP_SHRI}

\* the first switch of the token loop: the arity the opcode allows
TooManyParameters(opcode, ind) ==
    IF opcode = OP_FLAG THEN TRUE
    ELSE IF opcode = OP_LDI \/ opcode \in OneOperandOps THEN ind >= 1
    ELSE ind >= 2

\* the switch after the token loop
TooFewParameters(opcode, ind) ==
    IF opcode = OP_FLAG THEN FALSE
    ELSE IF opcode = OP_LDI \/ opcode \in OneOperandOps THEN ind # 1
    ELSE ind # 2

\* "!parseConst(token, ...) && !parseNum(token, &val)" of compile.c
ParseValue_compile(token, psize, inum) ==
    Eager(LAMBDA c : IF c.ok THEN c ELSE parseNum_compile(token),
          parseConst(token, psize, inum))

\* compileLine with the operation table, the register resolution and the
\* value parser of one of the two programs (variant is "assembler" or
\* "compile").  status is the return value (0 error, 1 a word, 2 no
\* instruction), ret the word, vars the table variables after the call.
CompileWith(line, psize, inum, use_vars, vs0, variant) ==
    LET GetOp(symbol) ==
            IF variant = "assembler" THEN getOperation(symbol)
            ELSE getOperation_compile(symbol)
        GetReg(symbol, vs, uv) ==
            IF variant = "assembler" THEN getRegister(symbol, vs, uv)
            ELSE getRegister_compile(symbol, vs, uv)
        ParseVal(token, ps, n) ==
            IF variant = "assembler" THEN ParseValue(token, ps, n)
            ELSE ParseValue_compile(token, ps, n)
        Operands(toks, opcode) ==
            LET RECURSIVE go(_, _, _, _)
                go(k, ret, ind, vs) ==
                    IF k > Len(toks) \/ toks[k][1] = ";"
                    THEN IF TooFewParameters(opcode, ind)
                         THEN [status |-> 0, ret |-> ret, vars |-> vs,
                               err |-> "Too few parameters"]
                         ELSE [status |-> 1, ret |-> ret, vars |-> vs, err |-> "none"]
                    ELSE IF TooManyParameters(opcode, ind)
                    THEN [status |-> 0, ret |-> ret, vars |-> vs,
                          err |-> "Too many parameters"]
                    ELSE IF opcode = OP_LDI \/ (opcode \in ImmediateOps /\ ind = 1)
                    THEN Eager(LAMBDA v :
                                   IF ~v.ok
                                   THEN [status |-> 0, ret |-> ret, vars |-> vs,
                                         err |-> v.err]
                                   ELSE IF OutOfRange(v.val,
                                                      IF opcode = OP_LDI THEN 16 ELSE 6)
                                   THEN [status |-> 0, ret |-> ret, vars |-> vs,
                                         err |-> "Number not in range"]
                                   ELSE Eager(LAMBDA w : go(k + 1, w, ind + 1, vs),
                                              BitOr(ret, v.val.lo)),
                               ParseVal(toks[k], psize, inum))
                    ELSE Eager(LAMBDA r :
                                   IF ~r.ok
                                   THEN [status |-> 0, ret |-> ret, vars |-> r.vars,
                                         err |-> r.err]
                                   ELSE Eager(LAMBDA w : go(k + 1, w, ind + 1, r.vars),
                                              BitOr(ret,
                                                    (r.reg * 2 ^ ((1 - ind) * 5)) % Limb)),
                               GetReg(toks[k], vs, use_vars))
            IN go(2, ((opcode % 64) * 1024) % Limb, 0, vs0)
    IN Eager(LAMBDA toks :
                 IF toks = <<>> \/ toks[1][1] = ";"
                 THEN [status |-> 2, ret |-> 0, vars |-> vs0, err |-> "none"]
                 ELSE Eager(LAMBDA g :
                                IF ~g.ok
                                THEN [status |-> 0, ret |-> 0, vars |-> vs0,
                                      err |-> g.err]
                                ELSE Operands(toks, g.op),
                            GetOp(toks[1])),
             Tokenize(line))

compileLine(line, psize, inum, use_vars, vs) ==
    CompileWith(line, psize, inum, use_vars, vs, "assembler")

\* compileLine of compile.c, which differs in the functions it calls
compileLine_compile(line, psize, inum, vs) ==
    CompileWith(line, psize, inum, FALSE, vs, "compile")

----------------------------------------------------------------------------
(* Source files *)

\* the words of a line joined by single blanks
Join(words) ==
    LET RECURSIVE go(_)
        go(k) == IF k > Len(words) THEN <<>>
                 ELSE IF k = Len(words) THEN words[k]
                 ELSE words[k] \o <<" ">> \o go(k + 1)
    IN go(1)

\* the file as the stream of characters fscanf reads: every line ends in '\n'
Flatten(ls) ==
    LET RECURSIVE go(_)
        go(k) == IF k > Len(ls) THEN <<>> ELSE ls[k] \o <<"\n">> \o go(k + 1)
    IN go(1)

\* the number of the line of the file that holds the character s[i]
LineOf(s, i) == 1 + Cardinality({j \in 1..(i - 1) : s[j] = "\n"})

\* the lines getline returns for the stream s read from index i on, each
\* with the number of the line of the file it comes from
SplitLines(s, i) ==
    LET RECURSIVE go(_, _, _, _)
        go(j, cur, no, acc) ==
            IF j > Len(s)
            THEN IF cur = <<>> THEN acc ELSE Append(acc, [text |-> cur, no |-> no])
            ELSE IF s[j] = "\n"
                 THEN Eager(LAMBDA a : go(j + 1, <<>>, no + 1, a),
                            Append(acc, [text |-> cur, no |-> no]))
                 ELSE Eager(LAMBDA c : go(j + 1, c, no, acc), Append(cur, s[j]))
    IN go(i, <<>>, LineOf(s, i), <<>>)

tFLAG == <<"F","L","A","G">>
tMV == <<"M","V">>
tStarts == <<"#","s","t","a","r","t","s">>
tFree == <<"#","f","r","e","e">>
tRepeat == <<"#","r","e","p","e","a","t">>

\* the body lines a source file of the model is made of
BodyLines ==
    { tFLAG,
      <<"M","V"," ","x",","," ","r","1">>,
      <<>>,
      <<",">>,
      <<"#">>,
      Join(<<tFree, <<"x">>>>),
      Join(<<tStarts, <<"0">>>>),
      Join(<<tStarts, <<"3">>>>),
      Join(<<tStarts, <<"-", "1">>>>),
      Join(<<tStarts, <<"1", "0", "2", "5">>>>),
      Join(<<tRepeat, <<"2">>, <<"2">>>>),
      Join(<<tRepeat, <<"1">>, <<"0">>>>),
      tRepeat }

\* the header lines: a fixed offset, the random-placement sentinel, no offset
HeaderLines ==
    { Join(<<<<"p">>, <<"0">>>>),
      Join(<<<<"p">>, <<"-", "1">>>>),
      <<"p">> }

RECURSIVE SeqsUpTo(_, _)
SeqsUpTo(S, n) ==
    IF n = 0 THEN {<<>>}
    ELSE LET shorter == SeqsUpTo(S, n - 1)
         IN shorter \cup {Append(q, x) : q \in {t \in shorter : Len(t) = n - 1}, x \in S}

lFLAG == tFLAG
lMV == Join(<<tMV, <<"x", ",">>, <<"r", "1">>>>)
lHeader == Join(<<<<"p">>, <<"0">>>>)

lComment == <<";", " ", "c">>
lBlank == <<" ">>
lIndentedComment == <<"\t", ";", "d">>
lFreeX == Join(<<tFree, <<"x">>>>)

\* longer programs: a whole #repeat block, a block with a #starts inside,
\* instructions without #repeat, a padding after an instruction, a variable
\* bound, released and bound again, an error with lines after it, comment
\* and white-space lines around instructions
Scenarios ==
    { <<lHeader, Join(<<tRepeat, <<"2">>, <<"2">>>>), lFLAG, lMV>>,
      <<lHeader, Join(<<tRepeat, <<"2">>, <<"2">>>>), lMV, lFLAG, lFLAG>>,
      <<lHeader, Join(<<tRepeat, <<"2">>, <<"2">>>>), lFLAG,
        Join(<<tStarts, <<"3">>>>), lMV>>,
      <<lHeader, lFLAG, lMV, lFLAG>>,
      <<lHeader, lMV, Join(<<tStarts, <<"3">>>>), lMV>>,
      <<lHeader, <<>>, lMV, Join(<<tFree, <<"x">>>>), lMV>>,
      <<lHeader, lFLAG, lFreeX, lFLAG>>,
      <<lHeader, lComment, lBlank, lFLAG, lIndentedComment>>,
      <<lHeader, lComment, lMV, <<>>, lIndentedComment>> }

SourceFiles ==
    {<<h>> \o body : h \in HeaderLines, body \in SeqsUpTo(BodyLines, MaxLines)}
        \cup Scenarios

\* values an uninitialised int may hold when sscanf converts nothing
IndeterminateInts == {0 - 1, 0, 2}

\* values rand() returns, among 0..RAND_MAX
RAND_MAX == 2147483647
RandValues == {1023, RAND_MAX}

----------------------------------------------------------------------------
(* The sizing pass *)

\* sscanf(line, "%*s %d", &param): the number of conversions and param
ScanOneInt(line) ==
    Eager(LAMBDA w :
      Eager(LAMBDA a : [n |-> IF a.ok THEN 1 ELSE 0, p1 |-> a.val],
            IF w.ok THEN ScanInt(line, w.next)
            ELSE [ok |-> FALSE, val |-> 0, next |-> 1]),
      ScanWord(line, 1))

\* sscanf(line, "%*s %d %d", &param1, &param2)
ScanTwoInts(line) ==
    Eager(LAMBDA w :
      Eager(LAMBDA a :
        Eager(LAMBDA b : [n |-> IF ~a.ok THEN 0 ELSE IF ~b.ok THEN 1 ELSE 2,
                          p1 |-> a.val, p2 |-> b.val],
              IF a.ok THEN ScanInt(line, a.next)
              ELSE [ok |-> FALSE, val |-> 0, next |-> 1]),
        IF w.ok THEN ScanInt(line, w.next)
        ELSE [ok |-> FALSE, val |-> 0, next |-> 1]),
      ScanWord(line, 1))

IsDirective(line) == Len(line) >= 1 /\ line[1] = "#"

\* countInstructions over all lines of the file; g is the value an int holds
\* that sscanf did not assign
countInstructions(ls, g) ==
    LET RECURSIVE go(_, _)
        go(k, ret) ==
            IF k > Len(ls) THEN ret
            ELSE LET line == ls[k]
                     Then(r) == Eager(LAMBDA v : go(k + 1, v), r)
                 IN IF IsDirective(line)
                    THEN IF strncasecmp(line, tStarts, 7) = 0
                         THEN Eager(LAMBDA one :
                                      Then(IF one.n = 1 THEN one.p1 ELSE g),
                                    ScanOneInt(line))
                         ELSE IF strncasecmp(line, tRepeat, 7) = 0
                         THEN Eager(LAMBDA two :
                                      LET param1 == IF two.n >= 1 THEN two.p1 ELSE g
                                          param2 == IF two.n >= 2 THEN two.p2 ELSE g
                                      IN Then(ret + param1 * (param2 - 1)),
                                    ScanTwoInts(line))
                         ELSE Then(ret)
                    ELSE Eager(LAMBDA i :
                                 IF i <= Len(line) /\ line[i] # ";"
                                 THEN Then(ret + 1)
                                 ELSE Then(ret),
                               SkipSpace(line, 1))
    IN go(1, 0 - 1)

----------------------------------------------------------------------------
(* compileFile *)

FillerWord == 64512      \* 0b1111110000000000
RepeatArrLen == 1024     \* fint repeat_arr[1024]
Window == 1024           \* 1 << 10

NoHist == [op |-> "none", lineno |-> 0, from |-> 0, before |-> <<>>,
           param |-> 0, word |-> 0,
           status |-> 0, startsAt |-> 0 - 1, afterStarts |-> 0 - 1,
           blkState |-> "none", blkK |-> 0, blkT |-> 0, blkStart |-> 0,
           blkEnd |-> 0, random |-> FALSE, overflowed |-> FALSE]

NoErr == [line |-> 0, msg |-> "none"]

FileInit ==
    /\ pc = "start"
    /\ lines = <<>>
    /\ linenum = 1
    /\ instruction_num = 0
    /\ program_size = 0
    /\ offset = 0
    /\ out = <<>>
    /\ trailer = FALSE
    /\ repeat_what = 0
    /\ repeat_times = 0
    /\ repeat_already = 0
    /\ repeat_arr = <<>>
    /\ rc = "none"
    /\ err = NoErr
    /\ hist = NoHist

Init ==
    /\ src \in SourceFiles
    /\ FileInit
    /\ variables = [i \in 1..31 |-> <<>>]
    /\ opts_vars = TRUE
    /\ inp = <<>>
    /\ res = <<>>
    /\ fuel = 0

\* "offset = rand() % ((1 << 10) - program_size)" in size_t arithmetic: a
\* modulus below zero stands for 2^64 + m, which exceeds every rand()
RandomOffset(r, psize) ==
    LET m == Window - psize
    IN IF m > 0 THEN r % m ELSE r

\* compileFile up to the loop: init_variables, the sizing pass, the header,
\* the random offset
Start ==
    /\ pc = "start"
    /\ \E g \in IndeterminateInts, stream \in {Flatten(src)} :
        \E name \in {ScanWord(stream, 1)}, psize \in {countInstructions(src, g)} :
        \E off \in {IF name.ok THEN ScanInt(stream, name.next)
                    ELSE [ok |-> FALSE, val |-> 0, next |-> 1]} :
           /\ variables' = init_variables
           /\ program_size' = psize
           /\ IF ~off.ok
              THEN /\ rc' = 1
                   /\ pc' = "returned"
                   /\ UNCHANGED <<lines, offset, hist>>
              ELSE /\ lines' = SplitLines(stream, SkipSpace(stream, off.next))
                   /\ hist' = [hist EXCEPT !.op = "start", !.random = (off.val = 0 - 1)]
                   /\ IF off.val = 0 - 1 /\ Window - psize = 0
                      THEN /\ pc' = "crashed"       \* division by zero
                           /\ UNCHANGED <<offset, rc>>
                      ELSE /\ \E r \in RandValues :
                                  offset' = IF off.val = 0 - 1
                                            THEN RandomOffset(r, psize)
                                            ELSE off.val
                           /\ pc' = "body"
                           /\ UNCHANGED rc
    /\ UNCHANGED <<src, linenum, instruction_num, out, trailer, repeat_what,
                   repeat_times, repeat_already, repeat_arr, err, opts_vars,
                   inp, res, fuel>>

\* getline returned a line: the state every handler of a body line starts from
Reading == pc = "body" /\ lines # <<>>

CurLine == Head(lines).text

\* what every handler does to the line counter and the input
NextLine ==
    /\ linenum' = linenum + 1
    /\ lines' = Tail(lines)

\* the error is reported and the loop goes on to the next line
FatalGoesOn(msg) ==
    /\ err' = [line |-> linenum + 1, msg |-> msg]
    /\ rc' = 0
    /\ pc' = "body"

\* "ok = 0; goto cleanup" after a message about the current line
Fatal(msg) ==
    /\ err' = [line |-> linenum + 1, msg |-> msg]
    /\ rc' = 0
    /\ pc' = "returned"

Handled(op) == [hist EXCEPT !.op = op, !.lineno = Head(lines).no,
                            !.from = instruction_num, !.before = out]

\* the number of times the loop would run were its test
\* "instruction_num <= param"
StartsPaddingInclusive(inum, param) == param - inum + 1

\* the number of times the loop "for (; instruction_num < param;
\* instruction_num++)" runs, for 0 <= instruction_num <= param
StartsPadding(inum, param) == param - inum

\* The words written so far are kept as runs [w, n] of n equal words w, so
\* that a long padding is one element.  Put writes n copies of one word,
\* PutAll a sequence of words, OutLen is the number of words written and
\* WordAt the word at a 0-based index.
Put(o, w, n) ==
    IF n = 0 THEN o
    ELSE IF o # <<>> /\ o[Len(o)].w = w
    THEN [o EXCEPT ![Len(o)].n = @ + n]
    ELSE Append(o, [w |-> w, n |-> n])

PutAll(o, ws) ==
    LET RECURSIVE go(_, _)
        go(k, acc) == IF k > Len(ws) THEN acc
                      ELSE Eager(LAMBDA a : go(k + 1, a), Put(acc, ws[k], 1))
    IN go(1, o)

OutLen(o) ==
    LET RECURSIVE go(_)
        go(k) == IF k > Len(o) THEN 0 ELSE o[k].n + go(k + 1)
    IN go(1)

WordAt(o, i) ==
    LET RECURSIVE go(_, _)
        go(k, skipped) ==
            IF i < skipped + o[k].n THEN o[k].w ELSE go(k + 1, skipped + o[k].n)
    IN go(1, 0)

\* the #starts directive
StartsLine ==
    /\ Reading
    /\ IsDirective(CurLine)
    /\ strncasecmp(CurLine, tStarts, 7) = 0
    /\ NextLine
    /\ \E g \in IndeterminateInts, sc \in {ScanOneInt(CurLine)} :
           LET param == IF sc.n = 1 THEN sc.p1 ELSE g
               \* "param < instruction_num" converts param to size_t
               back == param >= 0 /\ param < instruction_num
               room == IF param < 0 THEN Min(MaxFlood, MaxOut - instruction_num)
                       ELSE MaxOut - instruction_num
               need == IF param < 0 THEN room + 1
                       ELSE StartsPadding(instruction_num, param)
               h == [Handled("starts") EXCEPT !.param = param]
           IN IF back
              THEN /\ Fatal("#starts directive wants to go back")
                   /\ hist' = h
                   /\ UNCHANGED <<instruction_num, out>>
              ELSE IF need > room
              THEN /\ out' = Put(out, FillerWord, room)
                   /\ instruction_num' = instruction_num + room
                   /\ pc' = "capped"
                   /\ hist' = h
                   /\ UNCHANGED <<err, rc>>
              ELSE /\ out' = Put(out, FillerWord, need)
                   /\ instruction_num' = instruction_num + need
                   /\ hist' = [h EXCEPT !.startsAt = param]
                   /\ UNCHANGED <<err, rc, pc>>
    /\ UNCHANGED <<src, program_size, offset, trailer, variables, repeat_what,
                   repeat_times, repeat_already, repeat_arr, opts_vars,
                   inp, res, fuel>>

\* the #free directive; an unassigned param holds any string
FreeLine ==
    /\ Reading
    /\ IsDirective(CurLine)
    /\ strncasecmp(CurLine, tStarts, 7) # 0
    /\ strncasecmp(CurLine, tFree, 5) = 0
    /\ NextLine
    /\ \E g \in {<<>>, <<"x">>}, w \in {ScanWord(CurLine, 1)} :
       \E sc \in {IF w.ok THEN ScanWord(CurLine, w.next)
                   ELSE [ok |-> FALSE, val |-> <<>>, next |-> 1]} :
       \E f \in {FreeVariable(variables, IF sc.ok THEN sc.val ELSE g)} :
              /\ hist' = [Handled("free") EXCEPT !.status = IF f.ok THEN 1 ELSE 0]
              /\ variables' = f.vars
              /\ IF f.ok
                 THEN UNCHANGED <<err, rc, pc>>
                 ELSE Fatal("trying to free a variable which isn't in use")
    /\ UNCHANGED <<src, instruction_num, program_size, offset, out, trailer,
                   repeat_what, repeat_times, repeat_already, repeat_arr,
                   opts_vars, inp, res, fuel>>

\* the #repeat directive
RepeatLine ==
    /\ Reading
    /\ IsDirective(CurLine)
    /\ strncasecmp(CurLine, tStarts, 7) # 0
    /\ strncasecmp(CurLine, tFree, 5) # 0
    /\ strncasecmp(CurLine, tRepeat, 7) = 0
    /\ NextLine
    /\ \E sc \in {ScanTwoInts(CurLine)} :
          IF sc.n # 2
          THEN /\ Fatal("#repeat needs 2 parameters")
               /\ hist' = Handled("repeat")
               /\ UNCHANGED <<repeat_what, repeat_times, repeat_already>>
          ELSE IF repeat_what # 0
          THEN /\ Fatal("nesting #repeat-s isn't supported")
               /\ hist' = Handled("repeat")
               /\ UNCHANGED <<repeat_what, repeat_times, repeat_already>>
          ELSE /\ repeat_what' = sc.p1
               /\ repeat_times' = sc.p2 - 1
               /\ repeat_already' = 0
               /\ hist' = [Handled("repeat") EXCEPT
                              !.blkState = "capturing", !.blkK = sc.p1,
                              !.blkT = sc.p2, !.blkStart = instruction_num,
                              !.blkEnd = instruction_num]
               /\ UNCHANGED <<err, rc, pc>>
    /\ UNCHANGED <<src, instruction_num, program_size, offset, out, trailer,
                   variables, repeat_arr, opts_vars, inp, res, fuel>>

\* a line that starts with '#' and is none of the three directives
OtherDirective ==
    /\ Reading
    /\ IsDirective(CurLine)
    /\ strncasecmp(CurLine, tStarts, 7) # 0
    /\ strncasecmp(CurLine, tFree, 5) # 0
    /\ strncasecmp(CurLine, tRepeat, 7) # 0
    /\ NextLine
    /\ hist' = Handled("other")
    /\ UNCHANGED <<src, pc, instruction_num, program_size, offset, out, trailer,
                   variables, repeat_what, repeat_times, repeat_already,
                   repeat_arr, rc, err, opts_vars, inp, res, fuel>>

\* "repeat_arr[i] = l" for an index inside the array
Store(arr, i, l) ==
    IF i < Len(arr) THEN [arr EXCEPT ![i + 1] = l] ELSE Append(arr, l)

\* the first n words the replay loop writes: repeat_arr[0..what-1] over and over
ReplayWords(arr, what, n) == [j \in 1..n |-> arr[((j - 1) % what) + 1]]

\* the write of the word l of an instruction line, the capture into
\* repeat_arr and the replay loop; h is the history record of the line
WriteWord(l, h) ==
    LET capture == repeat_what # repeat_already
        already == IF capture THEN repeat_already + 1 ELSE repeat_already
        arr == IF capture THEN Store(repeat_arr, repeat_already, l) ELSE repeat_arr
        replay == repeat_what = already
        room == Min(MaxFlood, MaxOut - (instruction_num + 1))
        need == IF repeat_times < 0 THEN room + 1 ELSE repeat_times * repeat_what
        emitted == [h EXCEPT !.afterStarts = hist.startsAt, !.startsAt = 0 - 1]
        done == [emitted EXCEPT
                    !.blkState = IF repeat_what > 0 THEN "captured" ELSE @]
    IN
       IF instruction_num >= MaxOut
       THEN /\ pc' = "capped"
            /\ hist' = h
            /\ UNCHANGED <<instruction_num, out, repeat_what, repeat_times,
                           repeat_already, repeat_arr, err, rc>>
       ELSE IF capture /\ repeat_already >= RepeatArrLen
       THEN \* a write past the end of repeat_arr
            /\ pc' = "undefined"
            /\ out' = Put(out, l, 1)
            /\ instruction_num' = instruction_num + 1
            /\ hist' = emitted
            /\ UNCHANGED <<repeat_what, repeat_times, repeat_already,
                           repeat_arr, err, rc>>
       ELSE IF ~replay
       THEN /\ out' = Put(out, l, 1)
            /\ instruction_num' = instruction_num + 1
            /\ repeat_already' = already
            /\ repeat_arr' = arr
            /\ hist' = emitted
            /\ UNCHANGED <<repeat_what, repeat_times, err, rc, pc>>
       ELSE IF repeat_times < 0 /\ repeat_what = 0
       THEN \* while (repeat_times--) counts down from a negative value
            \* and passes INT_MIN: the loop ends when the count wraps
            \* around to 0, or the overflow traps, or the loop never
            \* ends
            /\ out' = Put(out, l, 1)
            /\ instruction_num' = instruction_num + 1
            /\ repeat_arr' = arr
            /\ hist' = [done EXCEPT !.overflowed = TRUE]
            /\ \/ /\ repeat_times' = 0 - 1
                  /\ repeat_what' = 0
                  /\ repeat_already' = 0
                  /\ UNCHANGED pc
               \/ /\ pc' \in {"hung", "crashed"}
                  /\ UNCHANGED <<repeat_what, repeat_times, repeat_already>>
            /\ UNCHANGED <<err, rc>>
       ELSE IF need > MaxOut - (instruction_num + 1) \/ repeat_times < 0
       THEN /\ out' = PutAll(Put(out, l, 1), ReplayWords(arr, repeat_what, room))
            /\ instruction_num' = instruction_num + 1 + room
            /\ repeat_arr' = arr
            /\ repeat_already' = already
            /\ pc' = "capped"
            /\ hist' = [done EXCEPT !.blkEnd = instruction_num + 1 + room]
            /\ UNCHANGED <<repeat_what, repeat_times, err, rc>>
       ELSE /\ out' = PutAll(Put(out, l, 1), ReplayWords(arr, repeat_what, need))
            /\ instruction_num' = instruction_num + 1 + need
            /\ repeat_arr' = arr
            /\ repeat_times' = 0 - 1
            /\ repeat_what' = 0
            /\ repeat_already' = 0
            /\ hist' = [done EXCEPT !.blkEnd = instruction_num + 1 + need]
            /\ UNCHANGED <<err, rc, pc>>

\* a line that is not a directive: compileLine, then the write of the word
InstrLine ==
    /\ Reading
    /\ ~IsDirective(CurLine)
    /\ NextLine
    /\ \E r \in {compileLine(CurLine, program_size, instruction_num, opts_vars,
                              variables)} :
       LET l == r.ret
           h == [Handled("instr") EXCEPT !.status = r.status, !.word = l]
       IN /\ variables' = r.vars
          /\ IF r.status = 0
             THEN /\ Fatal(r.err)
                  /\ hist' = h
                  /\ UNCHANGED <<instruction_num, out, repeat_what, repeat_times,
                                 repeat_already, repeat_arr>>
             ELSE IF r.status = 2
             THEN /\ hist' = h
                  /\ UNCHANGED <<instruction_num, out, repeat_what, repeat_times,
                                 repeat_already, repeat_arr, err, rc, pc>>
             ELSE WriteWord(l, h)
    /\ UNCHANGED <<src, program_size, offset, trailer, opts_vars, inp, res, fuel>>

\* end of input: the assertion, the trailer, the return
Finish ==
    /\ pc = "body"
    /\ lines = <<>>
    /\ IF program_size # instruction_num
       THEN /\ pc' = "aborted"
            /\ UNCHANGED <<trailer, rc>>
       ELSE /\ trailer' = TRUE
            /\ rc' = 1
            /\ pc' = "returned"
    /\ hist' = [hist EXCEPT !.op = "finish"]
    /\ UNCHANGED <<src, lines, linenum, instruction_num, program_size, offset,
                   out, variables, repeat_what, repeat_times, repeat_already,
                   repeat_arr, err, opts_vars, inp, res, fuel>>

\* one more pass of "while (repeat_times--)" where the count, having gone
\* below INT_MIN, does not come back to 0; the count is kept in
\* -MaxSpin .. -1, and the loop body "for (i = 0; i < repeat_what; i++)"
\* runs zero times as repeat_what = 0
Spin ==
    /\ pc = "hung"
    /\ repeat_times' = IF repeat_times > 0 - MaxSpin THEN repeat_times - 1 ELSE 0 - 1
    /\ UNCHANGED <<src, pc, lines, linenum, instruction_num, program_size, offset,
                   out, trailer, variables, repeat_what, repeat_already,
                   repeat_arr, rc, err, hist, opts_vars, inp, res, fuel>>

Next ==
    \/ Start
    \/ StartsLine
    \/ FreeLine
    \/ RepeatLine
    \/ OtherDirective
    \/ InstrLine
    \/ Spin
    \/ Finish

Spec == Init /\ [][Next]_vars

\* the process is a single thread that keeps running while it has a step to
\* take
SpecLive == Spec /\ WF_vars(Next)

\* "return rc != 1" of main: the exit status of the process
ExitStatus(r) == IF r # 1 THEN 1 ELSE 0

----------------------------------------------------------------------------
(* The capture and the replay on their own: the loop of compileFile right   *)
(* after an accepted "#repeat K T", fed with FLAG lines                     *)

\* the counts K of the #repeat directives studied: sscanf's %d accepts every
\* int, and the directive stores it unchecked
RepeatCounts == {0 - 1, 0, 1, 2, RepeatArrLen - 1, RepeatArrLen, RepeatArrLen + 1}

\* the numbers of times T
RepeatTimes == {1, 2}

\* the state after the header "p 0" and a first line "#repeat K T"
InitCapture ==
    /\ src = <<>>
    /\ pc = "body"
    /\ lines = <<>>
    /\ linenum = 2
    /\ instruction_num = 0
    /\ program_size = 0
    /\ offset = 0
    /\ out = <<>>
    /\ trailer = FALSE
    /\ repeat_what \in RepeatCounts
    /\ repeat_times \in {T - 1 : T \in RepeatTimes}
    /\ repeat_already = 0
    /\ repeat_arr = <<>>
    /\ rc = "none"
    /\ err = NoErr
    /\ hist = [NoHist EXCEPT !.op = "repeat", !.lineno = 2,
                             !.blkState = "capturing", !.blkK = repeat_what,
                             !.blkT = repeat_times + 1]
    /\ variables = init_variables
    /\ opts_vars = TRUE
    /\ inp = <<>>
    /\ res = <<>>
    /\ fuel = 0

\* the next line of the file is "FLAG": compileLine, then the write of the
\* word
FlagLine ==
    /\ pc = "body"
    /\ linenum' = linenum + 1
    /\ \E r \in {compileLine(lFLAG, program_size, instruction_num, opts_vars,
                              variables)} :
          /\ r.status = 1
          /\ variables' = r.vars
          /\ WriteWord(r.ret, [hist EXCEPT !.op = "instr", !.lineno = linenum + 1,
                                           !.from = instruction_num,
                                           !.before = out, !.status = r.status,
                                           !.word = r.ret])
    /\ UNCHANGED <<src, lines, program_size, offset, trailer, opts_vars, inp,
                   res, fuel>>

NextCapture == FlagLine

SpecCapture == InitCapture /\ [][NextCapture]_vars

----------------------------------------------------------------------------
(* The allocator on its own: operand resolutions and #free releases, in any  *)
(* order, on the table as init_variables leaves it                           *)

\* the names v01 .. v30, resolved in this order to fill the table
BulkName(k) == <<"v", DigitChars[(k \div 10) + 1], DigitChars[(k % 10) + 1]>>
BulkCount == 30

\* the names resolved and released in any order
StudyNames == {<<"x">>, <<"X">>, <<"y">>}
ReleasedNames == StudyNames \cup {BulkName(1), BulkName(15)}

NoRes == [op |-> "none", name |-> <<>>, ok |-> FALSE, reg |-> 0, err |-> "none",
          before |-> <<>>, everFailed |-> FALSE]

InitAlloc ==
    /\ src = <<>>
    /\ FileInit
    /\ variables = init_variables
    /\ opts_vars = TRUE
    /\ inp = <<>>
    /\ res = NoRes
    /\ fuel = MaxFuel

\* an operand that is a symbolic name: getRegister on it
ResolveName(name) ==
    \E r \in {getRegister(name, variables, opts_vars)} :
        /\ variables' = r.vars
        /\ inp' = name
        /\ res' = [op |-> "resolve", name |-> name, ok |-> r.ok, reg |-> r.reg,
                   err |-> r.err, before |-> variables,
                   everFailed |-> res.everFailed \/ ~r.ok]

\* the next name of v01 .. v30 that is not bound is used as an operand; the
\* table is filled this way before the names under study are used
ResolveFresh ==
    /\ fuel = MaxFuel
    /\ \E k \in 1..BulkCount :
          /\ \A i \in 1..31 : variables[i] # BulkName(k)
          /\ \A j \in 1..(k - 1) : \E i \in 1..31 : variables[i] = BulkName(j)
          /\ ResolveName(BulkName(k))
    /\ UNCHANGED <<fileVars, opts_vars, fuel>>

\* one of the names under study is used as an operand
Resolve ==
    /\ fuel > 0
    /\ fuel' = fuel - 1
    /\ \E name \in StudyNames : ResolveName(name)
    /\ UNCHANGED <<fileVars, opts_vars>>

\* #free on one of the names
Free ==
    /\ fuel > 0
    /\ fuel' = fuel - 1
    /\ \E name \in ReleasedNames :
       \E f \in {FreeVariable(variables, name)} :
          /\ variables' = f.vars
          /\ inp' = name
          /\ res' = [op |-> "free", name |-> name, ok |-> f.ok, reg |-> 0,
                     err |-> IF f.ok THEN "none"
                             ELSE "trying to free a variable which isn't in use",
                     before |-> variables, everFailed |-> res.everFailed]
    /\ UNCHANGED <<fileVars, opts_vars>>

NextAlloc == ResolveFresh \/ Resolve \/ Free

SpecAlloc == InitAlloc /\ [][NextAlloc]_vars

\* the slots of 1..hi that hold a name equal to name but for case
BoundSlots(vs, name, hi) == {i \in 1..hi : strcasecmp(vs[i], name) = 0}

\* the slots of 1..29 that hold no name
FreeSlots(vs) == {i \in 1..29 : vs[i] = <<>>}

\* C4: resolving a name that is not bound binds it to the lowest unbound slot
\* of 1..29 (never 0, 30 or 31, never a slot that holds a name) and changes
\* no other slot; it fails with "too many variables", changing nothing,
\* exactly when all 29 slots are bound.
C4_LowestFreeSlot ==
    (res.op = "resolve" /\ BoundSlots(res.before, res.name, 31) = {}) =>
        IF FreeSlots(res.before) = {}
        THEN /\ ~res.ok
             /\ res.err = "Too many variables"
             /\ variables = res.before
        ELSE /\ res.ok
             /\ res.reg \in FreeSlots(res.before)
             /\ \A j \in FreeSlots(res.before) : res.reg <= j
             /\ variables = [res.before EXCEPT ![res.reg] = res.name]

\* C4 witness: with 29 names bound a 30th failed; then, the name in slot 1
\* released, a new name took slot 1 while slots 2..29 were bound.
C4_Witness ==
    /\ res.op = "resolve"
    /\ res.everFailed
    /\ res.ok
    /\ res.reg = 1
    /\ res.before[1] = <<>>
    /\ \A i \in 2..29 : res.before[i] # <<>>
    /\ variables[1] = res.name

\* C5: #free X succeeds exactly when a slot of 1..29 holds X, compared without
\* regard to case as operand resolution compares; it then empties that slot
\* and no other; otherwise it is an error and no binding changes.
C5_FreeMatchesLikeResolve ==
    res.op = "free" =>
        /\ res.ok <=> BoundSlots(res.before, res.name, 29) # {}
        /\ res.ok =>
              \E i \in BoundSlots(res.before, res.name, 29) :
                  variables = [res.before EXCEPT ![i] = <<>>]
        /\ ~res.ok => variables = res.before

----------------------------------------------------------------------------
(* The line encoders on their own: one instruction line is given to          *)
(* compileLine of assembler.c and to compileLine of compile.c                *)

\* the decimal digits of n >= 0
DecToken(n) ==
    LET RECURSIVE go(_)
        go(k) == IF k < 10 THEN <<DigitChars[k + 1]>>
                 ELSE go(k \div 10) \o <<DigitChars[(k % 10) + 1]>>
    IN go(n)

Zeros(k) == [j \in 1..k |-> "0"]

tLDI == <<"L","D","I">>
ImmediateNames == {<<"A","D","D","I">>, <<"S","U","B","I">>,
                   <<"S","H","L","I">>, <<"S","H","R","I">>}
TwoRegisterNames ==
    {<<"M","V">>, <<"A","D","D">>, <<"S","U","B">>, <<"A","N","D">>, <<"O","R">>,
     <<"X","O","R">>, <<"S","H","L">>, <<"S","H","R">>, <<"J","Z">>,
     <<"J","N","Z">>, <<"J","N">>, <<"J","P">>, <<"L","D">>, <<"S","T">>}

\* operand tokens: registers by number, the special names, a variable
RegisterTokens ==
    {<<"r">> \o DecToken(n) : n \in {0, 1, 2, 3, 30, 31}}
        \cup {<<"s","p">>, <<"x">>}
PairTokens ==
    {<<"r">> \o DecToken(n) : n \in {0, 1, 31, 32, 33}}
        \cup {<<"R","7">>, <<"s","p">>, <<"P","C">>, <<"x">>}

\* literals: sign, base and digits
DecimalDigits ==
    {DecToken(n) : n \in 0..70}
        \cup {DecToken(n) : n \in 65530..65540}
        \cup {<<"0","0","7">>}
        \cup {<<"4","2","9","4","9","6","7">> \o <<a, b, c>> :
                  a \in {"2", "3"}, b \in {"0", "5", "9"},
                  c \in {"0", "1", "5", "6", "7", "9"}}
BinaryDigits ==
    {<<"1">> \o Zeros(k) \o t :
         k \in 0..MaxZeros, t \in {<<>>, <<"1">>, <<"1","0","1">>}}
HexDigits ==
    {h \o Zeros(k) \o t :
         h \in {<<"1">>, <<"f">>, <<"0","3">>}, k \in 0..(MaxZeros \div 4),
         t \in {<<>>, <<"5">>, <<"3","F">>}}
Literals ==
    {[neg |-> FALSE, base |-> 10, digits |-> d] : d \in DecimalDigits}
        \cup {[neg |-> TRUE, base |-> 10, digits |-> d] :
                  d \in {<<"1">>, <<"6","4">>}}
        \cup {[neg |-> FALSE, base |-> 2, digits |-> d] : d \in BinaryDigits}
        \cup {[neg |-> FALSE, base |-> 16, digits |-> d] : d \in HexDigits}

\* the literal as it is written in a source line
LiteralToken(l) ==
    (IF l.neg THEN <<"-">> ELSE <<>>)
        \o (IF l.base = 16 THEN <<"0","x">>
            ELSE IF l.base = 2 THEN <<"0","b">> ELSE <<>>)
        \o l.digits

NoLit == [neg |-> FALSE, base |-> 10, digits |-> <<>>]

EncInputs ==
    {[kind |-> "imm", op |-> o, a |-> r, b |-> DecToken(v), v |-> v, lit |-> NoLit] :
         o \in ImmediateNames, r \in RegisterTokens, v \in 0..64}
    \cup
    {[kind |-> "regs", op |-> o, a |-> r1, b |-> r2, v |-> 0, lit |-> NoLit] :
         o \in TwoRegisterNames, r1 \in PairTokens, r2 \in PairTokens}
    \cup
    {[kind |-> "num", op |-> tLDI, a |-> LiteralToken(l), b |-> <<>>, v |-> 0,
      lit |-> l] : l \in Literals}
    \cup
    {[kind |-> "num", op |-> o, a |-> <<"r","1">>, b |-> LiteralToken(l), v |-> 0,
      lit |-> l] : o \in ImmediateNames, l \in Literals}

\* the instruction line: "OP a" or "OP a, b"
LineText(i) ==
    IF i.b = <<>> THEN i.op \o <<" ">> \o i.a
    ELSE i.op \o <<" ">> \o i.a \o <<",", " ">> \o i.b

InitEnc ==
    /\ src = <<>>
    /\ FileInit
    /\ variables = init_variables
    /\ opts_vars = TRUE
    /\ inp \in EncInputs
    /\ res = NoRes
    /\ fuel = 0

\* the line goes through both encoders; regs and regs_compile are the slots
\* getRegister gives for the operands, in the order compileLine asks for them
Encode ==
    /\ res = NoRes
    /\ \E line \in {LineText(inp)} :
       \E a \in {compileLine(line, 1, 0, opts_vars, variables)} :
       \E c \in {compileLine_compile(line, 1, 0, variables)} :
       \E r1 \in {getRegister(inp.a, variables, opts_vars)} :
       \E r2 \in {getRegister(inp.b, r1.vars, opts_vars)} :
       \E c1 \in {getRegister_compile(inp.a, variables, FALSE)} :
       \E c2 \in {getRegister_compile(inp.b, c1.vars, FALSE)} :
          /\ res' = [op |-> "encode", asm |-> a, compile |-> c,
                     regs |-> <<r1.reg, r2.reg>>,
                     regs_compile |-> <<c1.reg, c2.reg>>]
          /\ variables' = a.vars
    /\ UNCHANGED <<fileVars, opts_vars, inp, fuel>>

NextEnc == Encode

SpecEnc == InitEnc /\ [][NextEnc]_vars

Encoded == res # NoRes /\ res.op = "encode"

\* C6: for ADDI, SUBI, SHLI and SHRI with first operand in slot r and an
\* accepted immediate v, bits 15-10 of the word are the opcode, bits 9-5 are
\* r and bits 5-0 are v.
C6_ImmediateFields ==
    (Encoded /\ inp.kind = "imm" /\ res.asm.status = 1) =>
        /\ Bits(res.asm.ret, 15, 10) = getOperation(inp.op).op
        /\ Bits(res.asm.ret, 9, 5) = res.regs[1]
        /\ Bits(res.asm.ret, 5, 0) = inp.v

\* the digits without their leading zeros
Significant(d) ==
    LET RECURSIVE go(_)
        go(k) == IF k < Len(d) /\ d[k] = "0" THEN go(k + 1) ELSE k
    IN SubSeq(d, go(1), Len(d))

\* the digits of 2^bits in the base
PowerDigits(base, bits) ==
    IF base = 2 THEN <<"1">> \o Zeros(bits)
    ELSE IF base = 16
    THEN (IF bits = 16 THEN <<"1">> \o Zeros(4) ELSE <<"4","0">>)
    ELSE (IF bits = 16 THEN <<"6","5","5","3","6">> ELSE <<"6","4">>)

\* a < b for digit strings of one length
DigitsLess(a, b) ==
    \E k \in 1..Len(a) :
        /\ HexVal(a[k]) < HexVal(b[k])
        /\ \A j \in 1..(k - 1) : a[j] = b[j] \/ HexVal(a[j]) = HexVal(b[j])

\* the mathematical value of the literal is in [0, 2^bits)
LiteralBelow(l, bits) ==
    LET d == Significant(l.digits)
        p == PowerDigits(l.base, bits)
    IN /\ ~l.neg
       /\ \/ Len(d) < Len(p)
          \/ Len(d) = Len(p) /\ DigitsLess(d, p)

\* the mathematical value of a literal below 2^16
LiteralValue(l) ==
    LET RECURSIVE go(_)
        go(k) == IF k = 0 THEN 0 ELSE go(k - 1) * l.base + HexVal(l.digits[k])
    IN go(Len(l.digits))

\* C7: a numeric literal is range-checked on its mathematical value n: LDI n
\* is accepted exactly when 0 <= n < 2^16 and the word is then n; the
\* immediate of ADDI, SUBI, SHLI and SHRI is accepted exactly when
\* 0 <= n < 2^6; a literal that is not accepted is reported as not in range.
C7_RangeOnMathematicalValue ==
    (Encoded /\ inp.kind = "num") =>
        LET bits == IF inp.op = tLDI THEN 16 ELSE 6
            inrange == LiteralBelow(inp.lit, bits)
        IN /\ (res.asm.status = 1) <=> inrange
           /\ (res.asm.status = 1 /\ inp.op = tLDI) =>
                  res.asm.ret = LiteralValue(inp.lit)
           /\ (res.asm.status # 1) =>
                  res.asm.status = 0 /\ res.asm.err = "Number not in range"

\* C10: for a two-register opcode and operand tokens the encoder accepts,
\* bits 15-10 of the word are the opcode, bits 9-5 the first operand's slot
\* and bits 4-0 the second operand's slot, both slots in 0..31; for the
\* encoder of assembler.c and for the encoder of compile.c.
C10_TwoRegisterFields ==
    (Encoded /\ inp.kind = "regs") =>
        /\ res.asm.status = 1 =>
              /\ res.regs[1] \in 0..31 /\ res.regs[2] \in 0..31
              /\ Bits(res.asm.ret, 15, 10) = getOperation(inp.op).op
              /\ Bits(res.asm.ret, 9, 5) = res.regs[1]
              /\ Bits(res.asm.ret, 4, 0) = res.regs[2]
        /\ res.compile.status = 1 =>
              /\ res.regs_compile[1] \in 0..31 /\ res.regs_compile[2] \in 0..31
              /\ Bits(res.compile.ret, 15, 10) = getOperation_compile(inp.op).op
              /\ Bits(res.compile.ret, 9, 5) = res.regs_compile[1]
              /\ Bits(res.compile.ret, 4, 0) = res.regs_compile[2]

----------------------------------------------------------------------------
(* Properties of compileFile, checked under Spec *)

\* Every word written is counted: the instruction index is the number of
\* words on the output.
IndexCountsWords == instruction_num = OutLen(out)

\* C1: whenever the emission pass reaches end of input without a user error,
\* the instruction count of the sizing pass equals the final instruction
\* index, so the assertion program_size == instruction_num does not fail.
C1_SizingMatchesEmission ==
    /\ (pc = "body" /\ lines = <<>>) => program_size = instruction_num
    /\ pc # "aborted"

\* C2: once the K instructions after an accepted #repeat K T are captured,
\* the block is exactly K*T words, the K originals followed by T-1 copies of
\* them in the same order, and the instruction index advanced by K*T.
C2_RepeatBlockIsKTimesT ==
    hist.blkState = "captured" =>
        /\ hist.blkEnd - hist.blkStart = hist.blkK * hist.blkT
        /\ \A j \in 0..(hist.blkK * hist.blkT - 1) :
               WordAt(out, hist.blkStart + j)
                   = WordAt(out, hist.blkStart + (j % hist.blkK))

\* the last handler was a #starts N met at an instruction index i <= N
StartsForward == hist.op = "starts" /\ hist.from <= hist.param

\* C3: #starts N at instruction index i <= N writes exactly N - i words after
\* the words already written, each with opcode bits 0x3F and operand bits
\* zero (0xFC00); the instruction index becomes N; and the next instruction
\* encoded is the word at index N.
C3_StartsPadsToN ==
    /\ StartsForward =>
          /\ instruction_num = hist.param
          /\ OutLen(out) = OutLen(hist.before) + (hist.param - hist.from)
          /\ \A j \in 0..(hist.from - 1) : WordAt(out, j) = WordAt(hist.before, j)
          /\ \A j \in hist.from..(hist.param - 1) :
                /\ Bits(WordAt(out, j), 15, 10) = 63
                /\ Bits(WordAt(out, j), 9, 0) = 0
    /\ (hist.op = "instr" /\ hist.status = 1 /\ hist.afterStarts >= 0) =>
          /\ hist.from = hist.afterStarts
          /\ WordAt(out, hist.afterStarts) = hist.word

\* C3 witness: an instruction has just been encoded right after a #starts 3
\* that padded from index 1 to index 3.
C3_Witness ==
    /\ hist.op = "instr"
    /\ hist.status = 1
    /\ hist.afterStarts = 3
    /\ OutLen(out) = 4
    /\ WordAt(out, 0) # 64512
    /\ WordAt(out, 1) = 64512
    /\ WordAt(out, 2) = 64512
    /\ WordAt(out, 3) = hist.word

\* C8: #starts N with N below the current instruction index, negative N
\* included, is the fatal error "wants to go back"; no filler is written and
\* the instruction index is unchanged.
C8_StartsBackIsFatal ==
    (hist.op = "starts" /\ hist.param < hist.from) =>
        /\ pc = "returned"
        /\ rc = 0
        /\ err.msg = "#starts directive wants to go back"
        /\ out = hist.before
        /\ instruction_num = hist.from

\* C9: with the random-placement sentinel in the header, a completed assembly
\* has an offset o with 0 <= o < 1024 - programSize.
C9_RandomOffsetInWindow ==
    (hist.random /\ pc = "returned" /\ rc = 1 /\ trailer) =>
        /\ 0 <= offset
        /\ offset < 1024 - program_size

\* C11: an error raised while a body line is processed is reported with the
\* 1-based number that line has in the source file.
C11_ErrorsNameTheSourceLine ==
    err.msg # "none" => err.line = hist.lineno

\* an error has been reported by the emission pass
Failed == err.msg # "none"

\* C12: once the emission pass has reported an error, compileFile has
\* returned its failure result, the line that failed wrote no word, the
\* trailer is not written, and no step is taken any more: no later line is
\* processed and no further word is written.
C12_FailFast ==
    /\ [](Failed =>
            /\ pc = "returned"
            /\ rc = 0
            /\ ExitStatus(rc) = 1
            /\ ~trailer
            /\ out = hist.before
            /\ instruction_num = hist.from)
    /\ [][~Failed]_vars

\* C12 witness: an error was reported after a word had been written and with
\* lines of the file still unread.
C12_Witness ==
    /\ Failed
    /\ OutLen(out) > 0
    /\ lines # <<>>
    /\ pc = "returned"

\* compileFile returned before the loop: the header was not found
HeaderMissing == pc = "returned" /\ hist.op = "none"

\* C15: a source whose first line is no "name offset" header writes no word
\* and makes compileFile return its failure result, the result of every other
\* error, which the caller tells apart from a success.
C15_MissingHeaderIsFailure ==
    HeaderMissing =>
        /\ out = <<>>
        /\ ~trailer
        /\ rc = 0
        /\ ExitStatus(rc) = 1

\* a line with nothing but white space, or whose first character after the
\* white space is ';'
BlankOrComment(l) ==
    LET i == SkipSpace(l, 1) IN i > Len(l) \/ l[i] = ";"

\* the body lines of the file that are neither blank, nor comment-only, nor
\* directives
InstructionLines(ls) ==
    Cardinality({k \in 2..Len(ls) : ~BlankOrComment(ls[k]) /\ ~IsDirective(ls[k])})

\* no line of the file is a #starts or a #repeat directive
PlainProgram(ls) ==
    \A k \in 1..Len(ls) :
        /\ strncasecmp(ls[k], tStarts, 7) # 0
        /\ strncasecmp(ls[k], tRepeat, 7) # 0

\* the assembly ran to its end and wrote the trailer
Assembled == pc = "returned" /\ rc = 1 /\ trailer

Stopped == pc \in {"returned", "aborted", "crashed", "capped", "undefined"}

\* C14: the assembly of every source file comes to an end: the replay loop
\* ends after the first, the second and every later instruction, with and
\* without a #repeat in force, and so does the padding of #starts.
C14_AssemblyTerminates == <>Stopped

\* C16: for every accepted "#repeat K T" each write of repeat_arr uses an
\* index in 0 .. 1023, and repeat_already is never negative nor beyond 1024.
C16_RepeatArrInBounds ==
    /\ pc # "undefined"
    /\ repeat_already \in 0..RepeatArrLen
    /\ Len(repeat_arr) <= RepeatArrLen

====
